---- MODULE Spec2Model ----
(***************************************************************************)
(* Model of ObservableBitcoinWallet (src/src/wallet/ObservableBitcoinWallet.ts): *)
(* the polling pipeline built by startPolling, the update pass updateState *)
(* with its paginated history fetch, the reactive balance, and send.       *)
(*                                                                         *)
(* Every step is one JavaScript run-to-completion job: a timer tick, the   *)
(* arrival of a provider response, or the continuation of an await.        *)
(* Provider calls of this repository are promise based, so a response is   *)
(* always a later job than its request.                                    *)
(***************************************************************************)
EXTENDS Integers, Sequences, FiniteSets, TLC

\* ---------------------------------------------------------------- bounds
MaxTicks == 3        \* timer ticks, the immediate first one included
MaxPages == 2        \* history pages one update pass may request
MaxUtxos == 2        \* length of a UTXO list getUTxOs answers with
MaxSendUtxos == 3    \* length of the UTXO list a send starts from
MaxSends == 2        \* send calls
MaxSingleSends == 1  \* send calls where one send alone is looked at
MaxFetchPages == 3   \* page requests of a fetchRecentTransactions run
MaxDerivations == 2  \* recorded deriveAddressByType calls
MaxSigns == 2        \* sign calls on one signer

\* ------------------------------------------------------ program constants
fixedFee == 500
limit == 50
reorgSafeDepth == 20

\* ------------------------------------------------------------ chain tips
Hashes == {"h1", "h2"}
Heights == {7, 30}
BlockInfos == [height : Heights, hash : Hashes]
NoBlock == [height |-> -1, hash |-> "null"]

\* ------------------------------------------------- keys and addresses
AddressTypes ==
    {"Legacy", "SegWit", "NativeSegWit", "Taproot", "ElectrumNativeSegWit"}
ChainTypes == {"external", "internal"}
Networks == {"mainnet", "testnet"}
Mnemonics == {"mnemonicA", "mnemonicB"}

\* deriveElectrumSeed(mnemonic): pbkdf2 of the mnemonic with the salt
\* "electrum" + password, the password being empty.
deriveElectrumSeed(mnemonic) == [pbkdf2 |-> mnemonic, salt |-> "electrum"]

Seeds == {deriveElectrumSeed(mnemonic) : mnemonic \in Mnemonics}

derivationPaths ==
    [NativeSegWit |-> "m/84'/0'/0'", SegWit |-> "m/49'/0'/0'",
     Legacy |-> "m/44'/0'/0'", Taproot |-> "m/86'/0'/0'",
     ElectrumNativeSegWit |-> "m/0'"]

\* deriveKeyPair: the BIP32 child of the seed's root at
\* derivationPaths[addressType]/chainPath/index; the child is determined by
\* the seed and the path, and different paths give different children.
deriveKeyPair(seed, addressType, chain, index) ==
    LET chainPath == IF chain = "external" THEN 0 ELSE 1
        path == <<derivationPaths[addressType], chainPath, index>>
    IN [publicKey |-> [part |-> "public", seed |-> seed, path |-> path],
        privateKey |-> [part |-> "private", seed |-> seed, path |-> path]]

derivePublicKey(seed, addressType, chain, index) ==
    deriveKeyPair(seed, addressType, chain, index).publicKey

PublicKeys ==
    { derivePublicKey(seed, "ElectrumNativeSegWit", "external", 0) :
        seed \in Seeds }

\* variant: SegWit without the P2SH wrapping
ScriptTemplateUnwrapped(addressType) ==
    CASE addressType = "Legacy" -> "P2PKH"
      [] addressType = "SegWit" -> "P2WPKH"
      [] addressType = "NativeSegWit" -> "P2WPKH"
      [] addressType = "ElectrumNativeSegWit" -> "P2WPKH"
      [] addressType = "Taproot" -> "P2TR"

\* the output-script template an address type selects
ScriptTemplate(addressType) ==
    CASE addressType = "Legacy" -> "P2PKH"
      [] addressType = "SegWit" -> "P2SH-P2WPKH"
      [] addressType = "NativeSegWit" -> "P2WPKH"
      [] addressType = "ElectrumNativeSegWit" -> "P2WPKH"
      [] addressType = "Taproot" -> "P2TR"

\* deriveAddressByType(publicKey, addressType, network): the template's
\* script for the key, encoded under the network's prefix rules. The
\* encoding is one-to-one in (network, template, key).
deriveAddressByType(publicKey, addressType, network) ==
    [network |-> network, script |-> ScriptTemplate(addressType),
     key |-> publicKey]

\* payments.p2wpkh({ pubkey, network }).address
P2wpkhAddress(pubkey, network) ==
    [network |-> network, script |-> "P2WPKH", key |-> pubkey]

\* What the constructor keeps of its arguments, and the address it derives,
\* publishes in addresses$ and hands to startPolling.
NewWallet(mnemonics, network) ==
    LET seed == deriveElectrumSeed(mnemonics)
        publicKey == derivePublicKey(seed, "ElectrumNativeSegWit", "external", 0)
    IN [mnemonics |-> mnemonics, network |-> network,
        address |-> deriveAddressByType(publicKey, "ElectrumNativeSegWit",
                                        network)]

VARIABLE wallet          \* this.mnemonics, this.network, the tracked address

\* ------------------------------------------------------------ input sets
WalletAddress == wallet.address
UTxOPool ==
    { [txId |-> "a", index |-> 0, amount |-> 10000, address |-> WalletAddress],
      [txId |-> "b", index |-> 1, amount |-> 5000, address |-> WalletAddress],
      [txId |-> "c", index |-> 0, amount |-> 3000, address |-> WalletAddress],
      [txId |-> "d", index |-> 2, amount |-> 400, address |-> WalletAddress] }

IsInjective(s) == \A i, j \in 1..Len(s) : s[i] = s[j] => i = j

UTxOListsOver(pool, maxLen) ==
    UNION { { s \in [1..n -> pool] : IsInjective(s) } : n \in 0..maxLen }

\* answers of getUTxOs while the sync engine and send run together
SyncUTxOLists ==
    UTxOListsOver({u \in UTxOPool : u.txId \in {"a", "d"}}, MaxUtxos)
\* lists a send may find in utxos$
SendUTxOLists == UTxOListsOver(UTxOPool, MaxSendUtxos)

ShortPageLens == {12}
HistoryEntry == [transactionHash |-> "t"]
Page(n) == [i \in 1..n |-> HistoryEntry]

Recipients == {"tb1qrecipient", "not-an-address"}
IsValidAddress(a) == a # "not-an-address"
SendAmounts == {500, 2499, 2500, 8000}
SyncSendAmounts == {500}
\* errors a failing provider.submitTransaction may throw
ProviderErrors == {"Network Error", "Request failed with status code 400"}

VARIABLES
    pollingAlive,        \* the subscription made by startPolling is alive
    tipRequest,          \* inner subscription of switchMap: "none" | "pending"
    dropped,             \* ticks whose tip request switchMap unsubscribed
                         \* from and whose HTTP answer is still to come
    ticks,               \* timer emissions so far
    lastDelivered,       \* last value handed to the subscribe callback
    tipFailures,         \* tip requests that failed
    lastKnownBlock,
    passes,              \* updateState invocations, in order of their start
    transactionHistory,  \* this.transactionHistory and transactionHistory$
    historyPass,         \* pass that published transactionHistory (0: none)
    utxos,               \* utxos$.value
    utxosPass,           \* pass whose getUTxOs published utxos (0: none)
    utxosFailed,         \* utxos was published by the error handler
    balance,             \* balance$.value
    syncProgress,        \* syncProgress$.value
    sends,               \* send invocations, in order of their call
    submitCalls,         \* calls made to provider.submitTransaction
    fetch,               \* a run of fetchRecentTransactions on its own
    statusQuery,         \* a call of a provider's getTransactionStatus
    derived,             \* addresses derived with deriveAddressByType
    signer               \* a CustomSigner and the sign calls made on it

vars == <<wallet, pollingAlive, tipRequest, dropped, ticks, lastDelivered, tipFailures,
          lastKnownBlock,
          passes, transactionHistory, historyPass, utxos, utxosPass, utxosFailed,
          balance, syncProgress, sends, submitCalls, fetch, statusQuery,
          derived, signer>>

pollVars == <<pollingAlive, tipRequest, dropped, ticks, lastDelivered,
              tipFailures>>
sendVars == <<sends, submitCalls>>
utxoVars == <<utxos, utxosPass, utxosFailed, balance>>
walletVars == <<pollVars, lastKnownBlock, passes, transactionHistory,
                historyPass, utxoVars, syncProgress, sendVars>>
\* what no step of the sync engine or of send writes
standaloneVars == <<wallet, fetch, statusQuery, derived, signer>>

\* ----------------------------------------------------------- pure helpers
Max(a, b) == IF a >= b THEN a ELSE b

\* utxos.reduce((total, utxo) => total + utxo.amount, 0n)
RECURSIVE Reduce(_, _, _)
Reduce(list, i, total) ==
    IF i > Len(list) THEN total
    ELSE Reduce(list, i + 1, total + list[i].amount)

\* variant: the fold starts at the second element
BalanceSkipsFirst(list) == Reduce(list, 2, 0)

Balance(list) == Reduce(list, 1, 0)

\* Number(x) of a bigint is x itself up to 2^53 - 1 and rounds above. Every
\* amount here, like every amount of satoshis that exists (at most 21 * 10^14),
\* is below that, so the conversion never rounds in this model.
ToNumber(x) == x

\* --------------------------------------------------------------- initial
NoFetch == [pc |-> "idle"]
NoQuery == [pc |-> "idle"]
NoSigner == [pc |-> "none"]

\* No call is being made outside the polling and send of the wallet.
StandaloneIdle ==
    /\ fetch = NoFetch
    /\ statusQuery = NoQuery
    /\ derived = <<>>
    /\ signer = NoSigner

\* State when the constructor returns: startWith(0) has made the first tip
\* request, the balance subscription has replayed the empty UTXO list.
Init ==
    /\ wallet = NewWallet("mnemonicA", "testnet")
    /\ pollingAlive = TRUE
    /\ tipRequest = "pending"
    /\ dropped = {}
    /\ ticks = 1
    /\ lastDelivered = NoBlock
    /\ tipFailures = 0
    /\ lastKnownBlock = NoBlock
    /\ passes = <<>>
    /\ transactionHistory = <<>>
    /\ historyPass = 0
    /\ utxos = <<>>
    /\ utxosPass = 0
    /\ utxosFailed = FALSE
    /\ balance = Balance(<<>>)
    /\ syncProgress = 0
    /\ sends = <<>>
    /\ submitCalls = <<>>
    /\ StandaloneIdle

\* ----------------------------------------------------------- sync engine
\* interval(pollInterval) emits; switchMap drops the previous inner
\* subscription and calls getLastKnownBlock again.
Tick ==
    /\ pollingAlive
    /\ ticks < MaxTicks
    /\ ticks' = ticks + 1
    /\ tipRequest' = "pending"
    /\ dropped' = IF tipRequest = "pending" THEN dropped \cup {ticks}
                  ELSE dropped
    /\ UNCHANGED <<standaloneVars, pollingAlive, lastDelivered, tipFailures, lastKnownBlock,
                   passes, transactionHistory, historyPass, utxoVars,
                   syncProgress, sendVars>>

\* variant: a tip counts as new only when it is also higher
IsNewTipHigher(known, latestBlockInfo) ==
    \/ known = NoBlock
    \/ known.hash # latestBlockInfo.hash /\ latestBlockInfo.height > known.height

\* !this.lastKnownBlock || this.lastKnownBlock.hash !== latestBlockInfo.hash
IsNewTip(known, latestBlockInfo) ==
    known = NoBlock \/ known.hash # latestBlockInfo.hash

\* updateState up to its first await: the tip is stored and the first
\* history page is requested.
StartedPass(latestBlockInfo) ==
    [ tip |-> latestBlockInfo,
      pc |-> "history",
      startHeight |-> Max(0, latestBlockInfo.height - reorgSafeDepth),
      offset |-> 0,
      transactions |-> <<>>,
      utxoSeq |-> 0 ]     \* position of its getUTxOs call among all (0: none)

\* The tip request answers; the subscribe callback runs.
TipResponse(latestBlockInfo) ==
    /\ tipRequest = "pending"
    /\ tipRequest' = "none"
    /\ lastDelivered' = latestBlockInfo
    /\ IF IsNewTip(lastKnownBlock, latestBlockInfo)
       THEN /\ lastKnownBlock' = latestBlockInfo
            /\ passes' = Append(passes, StartedPass(latestBlockInfo))
       ELSE UNCHANGED <<lastKnownBlock, passes>>
    /\ UNCHANGED <<standaloneVars, pollingAlive, dropped, ticks, tipFailures,
                   transactionHistory,
                   historyPass, utxoVars, syncProgress, sendVars>>

\* The tip request fails: switchMap forwards the error, which ends the
\* subscription to interval; catchError replaces the stream by of(null),
\* which delivers null and completes.
TipFail ==
    /\ tipRequest = "pending"
    /\ tipRequest' = "none"
    /\ pollingAlive' = FALSE
    /\ lastDelivered' = NoBlock
    /\ tipFailures' = tipFailures + 1
    /\ UNCHANGED <<standaloneVars, dropped, ticks, lastKnownBlock, passes,
                   transactionHistory,
                   historyPass, utxoVars, syncProgress, sendVars>>

\* variant: mergeMap in place of switchMap, the answer to an earlier tick
\* is handed to the subscribe callback as well
DroppedResponseDelivered(t, latestBlockInfo) ==
    /\ t \in dropped
    /\ dropped' = dropped \ {t}
    /\ lastDelivered' = latestBlockInfo
    /\ IF IsNewTip(lastKnownBlock, latestBlockInfo)
       THEN /\ lastKnownBlock' = latestBlockInfo
            /\ passes' = Append(passes, StartedPass(latestBlockInfo))
       ELSE UNCHANGED <<lastKnownBlock, passes>>
    /\ UNCHANGED <<standaloneVars, pollingAlive, tipRequest, ticks,
                   tipFailures, transactionHistory, historyPass, utxoVars,
                   syncProgress, sendVars>>

\* The HTTP answer (or failure) to a tip request that switchMap has
\* unsubscribed from arrives: nobody listens, nothing is delivered.
DroppedResponse(t, latestBlockInfo) ==
    /\ t \in dropped
    /\ dropped' = dropped \ {t}
    /\ UNCHANGED <<standaloneVars, pollingAlive, tipRequest, ticks,
                   lastDelivered, tipFailures, lastKnownBlock, passes,
                   transactionHistory, historyPass, utxoVars, syncProgress,
                   sendVars>>

\* The frame of an updateState invocation that has nothing left to do.
Finished(pass, pc) ==
    [pass EXCEPT !.pc = pc, !.offset = 0, !.transactions = <<>>]

\* getUTxOs calls made so far
UtxoFetchesIssued ==
    Cardinality({q \in DOMAIN passes : passes[q].utxoSeq > 0})

\* A history page of length n answers pass p. A full page asks for the next
\* one; a short page ends fetchRecentTransactions, and updateState runs to
\* its end: history published, getUTxOs requested, tip stored, progress 100.
HistoryPage(p, n) ==
    /\ passes[p].pc = "history"
    /\ n = limit => passes[p].offset \div limit + 1 < MaxPages
    /\ LET transactions == passes[p].transactions \o Page(n) IN
       IF n < limit
       THEN /\ passes' = [passes EXCEPT
                            ![p] = [Finished(@, "utxos") EXCEPT
                                      !.utxoSeq = UtxoFetchesIssued + 1]]
            /\ transactionHistory' = transactions
            /\ historyPass' = p
            /\ lastKnownBlock' = passes[p].tip
            /\ syncProgress' = 100
       ELSE /\ passes' = [passes EXCEPT ![p].transactions = transactions,
                                        ![p].offset = @ + limit]
            /\ UNCHANGED <<transactionHistory, historyPass, lastKnownBlock,
                           syncProgress>>
    /\ UNCHANGED <<standaloneVars, pollVars, utxoVars, sendVars>>

\* variant: a failed page ends the fetch like a short page would
HistoryFailPublishesPartial(p) ==
    /\ passes[p].pc = "history"
    /\ passes' = [passes EXCEPT ![p] = Finished(@, "abandoned")]
    /\ transactionHistory' = passes[p].transactions
    /\ historyPass' = p
    /\ syncProgress' = 100
    /\ UNCHANGED <<standaloneVars, pollVars, lastKnownBlock, utxoVars,
                   sendVars>>

\* variant: a failed pass takes the progress back to 0
HistoryFailResetsProgress(p) ==
    /\ passes[p].pc = "history"
    /\ passes' = [passes EXCEPT ![p] = Finished(@, "abandoned")]
    /\ syncProgress' = 0
    /\ UNCHANGED <<standaloneVars, pollVars, lastKnownBlock,
                   transactionHistory, historyPass, utxoVars, sendVars>>

\* A history page request fails: the await throws, updateState rejects and
\* nobody handles the rejection.
HistoryFail(p) ==
    /\ passes[p].pc = "history"
    /\ passes' = [passes EXCEPT ![p] = Finished(@, "abandoned")]
    /\ UNCHANGED <<standaloneVars, pollVars, lastKnownBlock, transactionHistory, historyPass,
                   utxoVars, syncProgress, sendVars>>

\* getUTxOs of pass p answers: utxos$.next(list), and the subscription made
\* in the constructor republishes the balance.
UtxoResponse(p, list) ==
    /\ passes[p].pc = "utxos"
    /\ passes' = [passes EXCEPT ![p].pc = "done"]
    /\ utxos' = list
    /\ utxosPass' = p
    /\ utxosFailed' = FALSE
    /\ balance' = Balance(list)
    /\ UNCHANGED <<standaloneVars, pollVars, lastKnownBlock, transactionHistory, historyPass,
                   syncProgress, sendVars>>

\* variant: the error handler only logs, the previous list stays
UtxoFailKeepsList(p) ==
    /\ passes[p].pc = "utxos"
    /\ passes' = [passes EXCEPT ![p].pc = "done"]
    /\ utxosPass' = p
    /\ utxosFailed' = TRUE
    /\ UNCHANGED <<standaloneVars, pollVars, lastKnownBlock,
                   transactionHistory, historyPass, utxos, balance,
                   syncProgress, sendVars>>

\* getUTxOs of pass p fails: utxos$.next([]).
UtxoFail(p) ==
    /\ passes[p].pc = "utxos"
    /\ passes' = [passes EXCEPT ![p].pc = "done"]
    /\ utxos' = <<>>
    /\ utxosPass' = p
    /\ utxosFailed' = TRUE
    /\ balance' = Balance(<<>>)
    /\ UNCHANGED <<standaloneVars, pollVars, lastKnownBlock, transactionHistory, historyPass,
                   syncProgress, sendVars>>

\* ------------------------------------------------------------------ send
NoTx == [ins |-> <<>>, outs |-> <<>>]

\* for (const utxo of utxos) { push; inputSum += amount; if (>=) break; }
RECURSIVE SelectLoop(_, _, _, _, _)
SelectLoop(list, i, selected, inputSum, threshold) ==
    IF i > Len(list) THEN [selected |-> selected, inputSum |-> inputSum]
    ELSE LET pushed == Append(selected, list[i])
             sum == inputSum + list[i].amount
         IN IF sum >= threshold
            THEN [selected |-> pushed, inputSum |-> sum]
            ELSE SelectLoop(list, i + 1, pushed, sum, threshold)

\* variant: the loop has no break, every UTXO is selected
SelectEveryUTxO(list, amount) ==
    SelectLoop(list, 1, <<>>, 0, Reduce(list, 1, 0) + 1)

SelectUTxOs(list, amount) == SelectLoop(list, 1, <<>>, 0, amount + fixedFee)

\* variant: the check forgets the fee
IsInsufficientWithoutFee(inputSum, amount) == inputSum < amount

\* if (inputSum < amount + fixedFee) throw
IsInsufficient(inputSum, amount) == inputSum < amount + fixedFee

\* psbt.addInput for every selected UTXO
Inputs(selected) ==
    [i \in 1..Len(selected) |->
        [hash |-> selected[i].txId, index |-> selected[i].index,
         value |-> ToNumber(selected[i].amount)]]

\* variant: the fee is not taken off the change
ChangeWithoutFee(inputSum, amount) == inputSum - amount

\* const change = inputSum - amount - fixedFee
Change(inputSum, amount) == inputSum - amount - fixedFee

\* variant: a remainder of one satoshi is dropped
HasChangeAboveOne(change) == change > 1

\* if (change > 0n) add the change output
HasChange(change) == change > 0

\* variant: the change goes to the first address of the internal chain
SendKeyPairInternal ==
    deriveKeyPair(deriveElectrumSeed(wallet.mnemonics),
                  "ElectrumNativeSegWit", "internal", 0)

\* const seed = deriveElectrumSeed(this.mnemonics);
\* const keyPair = deriveKeyPair(seed, ElectrumNativeSegWit, External, 0)
SendKeyPair ==
    deriveKeyPair(deriveElectrumSeed(wallet.mnemonics),
                  "ElectrumNativeSegWit", "external", 0)

\* payments.p2wpkh({ pubkey: keyPair.publicKey, network: this.network })
ChangeAddress == P2wpkhAddress(SendKeyPair.publicKey, wallet.network)

Outputs(toAddress, amount, inputSum) ==
    LET change == Change(inputSum, amount) IN
    <<[address |-> toAddress, value |-> ToNumber(amount)]>> \o
    (IF HasChange(change)
     THEN <<[address |-> ChangeAddress, value |-> ToNumber(change)]>>
     ELSE <<>>)

\* What the body of send computes from the UTXO list it read: either an
\* error that rejects the call or the transaction handed to the provider.
SendBody(list, toAddress, amount) ==
    IF Len(list) = 0
    THEN [error |-> "No UTXOs available", tx |-> NoTx]
    ELSE LET sel == SelectUTxOs(list, amount) IN
         IF IsInsufficient(sel.inputSum, amount)
         THEN [error |-> "Insufficient funds", tx |-> NoTx]
         ELSE IF ~IsValidAddress(toAddress)
         THEN [error |-> "Invalid address", tx |-> NoTx]
         ELSE [error |-> "none",
               tx |-> [ins |-> Inputs(sel.selected),
                       outs |-> Outputs(toAddress, amount, sel.inputSum)]]

\* variant: the catch block throws an error of its own
RethrowWrapped(error) == "Failed to send transaction"

\* catch (error) { console.error(...); throw error; }
Rethrow(error) == error

\* send is called: this.utxos$.value is read, then the await yields.
SendCall(toAddress, amount) ==
    /\ Len(sends) < MaxSends
    /\ sends' = Append(sends, [pc |-> "called", toAddress |-> toAddress,
                               amount |-> amount, utxos |-> utxos,
                               tx |-> NoTx, error |-> "none"])
    /\ UNCHANGED <<standaloneVars, pollVars, lastKnownBlock, passes, transactionHistory,
                   historyPass, utxoVars, syncProgress, submitCalls>>

\* variant: the list is read when the await resumes
SelectionSourceAtResume(s) == utxos

\* The list the body of send works on: the one read when send was called.
SelectionSource(s) == sends[s].utxos

\* The await resumes: checks, coin selection, build, sign and the call of
\* provider.submitTransaction.
SendContinue(s) ==
    /\ sends[s].pc = "called"
    /\ LET r == SendBody(SelectionSource(s), sends[s].toAddress,
                         sends[s].amount) IN
       IF r.error # "none"
       THEN /\ sends' = [sends EXCEPT ![s].pc = "rejected",
                                      ![s].error = Rethrow(r.error)]
            /\ UNCHANGED submitCalls
       ELSE /\ sends' = [sends EXCEPT ![s].pc = "submitting",
                                      ![s].tx = r.tx]
            /\ submitCalls' = Append(submitCalls, r.tx)
    /\ UNCHANGED <<standaloneVars, pollVars, lastKnownBlock, passes, transactionHistory,
                   historyPass, utxoVars, syncProgress>>

\* variant: a submitted send takes its inputs out of the wallet's list
SubmitOkSpendsInputs(s) ==
    /\ sends[s].pc = "submitting"
    /\ sends' = [sends EXCEPT ![s].pc = "resolved"]
    /\ LET Unspent(u) == \A i \in DOMAIN sends[s].tx.ins :
                            sends[s].tx.ins[i].hash # u.txId
       IN /\ utxos' = SelectSeq(utxos, Unspent)
          /\ balance' = Balance(SelectSeq(utxos, Unspent))
    /\ UNCHANGED <<standaloneVars, pollVars, lastKnownBlock, passes,
                   transactionHistory, historyPass, utxosPass, utxosFailed,
                   syncProgress, submitCalls>>

\* variant: a submitted send empties the wallet's list until the next sync
SubmitOkEmptiesList(s) ==
    /\ sends[s].pc = "submitting"
    /\ sends' = [sends EXCEPT ![s].pc = "resolved"]
    /\ utxos' = <<>>
    /\ balance' = Balance(<<>>)
    /\ UNCHANGED <<standaloneVars, pollVars, lastKnownBlock, passes,
                   transactionHistory, historyPass, utxosPass, utxosFailed,
                   syncProgress, submitCalls>>

\* submitTransaction answers with the transaction id.
SubmitOk(s) ==
    /\ sends[s].pc = "submitting"
    /\ sends' = [sends EXCEPT ![s].pc = "resolved"]
    /\ UNCHANGED <<standaloneVars, pollVars, lastKnownBlock, passes, transactionHistory,
                   historyPass, utxoVars, syncProgress, submitCalls>>

\* submitTransaction fails with err: the error is logged and rethrown.
SubmitFail(s, err) ==
    /\ sends[s].pc = "submitting"
    /\ sends' = [sends EXCEPT ![s].pc = "rejected",
                              ![s].error = Rethrow(err)]
    /\ UNCHANGED <<standaloneVars, pollVars, lastKnownBlock, passes, transactionHistory,
                   historyPass, utxoVars, syncProgress, submitCalls>>

\* --------------------------------------------------------- specification
Next ==
    \/ Tick
    \/ \E b \in BlockInfos : TipResponse(b)
    \/ TipFail
    \/ \E t \in dropped : \E b \in BlockInfos : DroppedResponse(t, b)
    \/ \E p \in DOMAIN passes : \E n \in ShortPageLens \cup {limit} :
          HistoryPage(p, n)
    \/ \E p \in DOMAIN passes : HistoryFail(p)
    \/ \E p \in DOMAIN passes : \E list \in SyncUTxOLists :
          UtxoResponse(p, list)
    \/ \E p \in DOMAIN passes : UtxoFail(p)
    \/ /\ Len(sends) < MaxSingleSends
       /\ \E m \in SyncSendAmounts : SendCall("tb1qrecipient", m)
    \/ \E s \in DOMAIN sends : SendContinue(s)
    \/ \E s \in DOMAIN sends : SubmitOk(s)
    \/ \E s \in DOMAIN sends : SubmitFail(s, "Network Error")

Spec == Init /\ [][Next]_vars

\* The sync engine on its own, no send being called. Every provider call
\* of an update pass is an HTTP request that ends, with an answer or with a
\* failure; the timer may stop at any time.
HistoryAnswered(p) ==
    \/ \E n \in ShortPageLens \cup {limit} : HistoryPage(p, n)
    \/ HistoryFail(p)
UtxosAnswered(p) ==
    \/ \E list \in SyncUTxOLists : UtxoResponse(p, list)
    \/ UtxoFail(p)

NextSync ==
    \/ Tick
    \/ \E b \in BlockInfos : TipResponse(b)
    \/ TipFail
    \/ \E t \in dropped : \E b \in BlockInfos : DroppedResponse(t, b)
    \/ \E p \in DOMAIN passes : HistoryAnswered(p)
    \/ \E p \in DOMAIN passes : UtxosAnswered(p)

SpecSync ==
    /\ Init
    /\ [][NextSync]_vars
    /\ \A p \in 1..MaxTicks :
          /\ WF_vars(p \in DOMAIN passes /\ HistoryAnswered(p))
          /\ WF_vars(p \in DOMAIN passes /\ UtxosAnswered(p))

\* send on its own: the wallet after one complete update pass whose
\* getUTxOs answered with any list, and send calls from there on.
InitSend ==
    /\ wallet \in {NewWallet(mnemonics, network) :
                     mnemonics \in Mnemonics, network \in Networks}
    /\ pollingAlive = TRUE
    /\ tipRequest = "none"
    /\ dropped = {}
    /\ ticks = 1
    /\ lastDelivered = [height |-> 30, hash |-> "h1"]
    /\ tipFailures = 0
    /\ lastKnownBlock = lastDelivered
    /\ passes = <<[Finished(StartedPass(lastDelivered), "done") EXCEPT
                      !.utxoSeq = 1]>>
    /\ transactionHistory = Page(12)
    /\ historyPass = 1
    /\ utxos \in SendUTxOLists
    /\ utxosPass = 1
    /\ utxosFailed = FALSE
    /\ balance = Balance(utxos)
    /\ syncProgress = 100
    /\ sends = <<>>
    /\ submitCalls = <<>>
    /\ StandaloneIdle

NextSend ==
    \/ /\ Len(sends) < MaxSingleSends
       /\ \E a \in Recipients : \E m \in SendAmounts : SendCall(a, m)
    \/ \E s \in DOMAIN sends : SendContinue(s)
    \/ \E s \in DOMAIN sends : SubmitOk(s)
    \/ \E s \in DOMAIN sends : \E err \in ProviderErrors : SubmitFail(s, err)

SpecSend == InitSend /\ [][NextSend]_vars

\* send called again: the same wallet, no sync pass running, and up to
\* MaxSends calls to one recipient.
ResendAmounts == {2500, 8000}

NextResend ==
    \/ \E m \in ResendAmounts : SendCall("tb1qrecipient", m)
    \/ \E s \in DOMAIN sends : SendContinue(s)
    \/ \E s \in DOMAIN sends : SubmitOk(s)
    \/ \E s \in DOMAIN sends : SubmitFail(s, "Network Error")

SpecResend == InitSend /\ [][NextResend]_vars

\* ------------------------------------- fetchRecentTransactions on its own
\* A provider stub answers each page request with a page of any of these
\* lengths, or completes without a value (toPromise gives undefined).
StubPageLens == {0, 12, limit}
Undefined == [defined |-> FALSE, entries |-> <<>>]
\* the page of length n that answers request number k
StubPage(k, n) ==
    [defined |-> TRUE,
     entries |-> [i \in 1..n |-> [transactionHash |-> <<k, i>>]]]
StartHeights == {Max(0, h - reorgSafeDepth) : h \in Heights}

\* this.provider.getTransactions(address, startHeight, limit, offset)
PageRequest(startHeight, offset) ==
    [address |-> WalletAddress, startHeight |-> startHeight,
     limit |-> limit, offset |-> offset]

\* fetchRecentTransactions(address, startHeight, endHeight) up to its
\* first await.
FetchStart(provider, history, startHeight) ==
    /\ fetch.pc = "idle"
    /\ fetch' = [pc |-> "awaiting", startHeight |-> startHeight,
                 offset |-> 0, transactions |-> <<>>,
                 requests |-> <<PageRequest(startHeight, 0)>>,
                 received |-> <<>>,
                 provider |-> provider, history |-> history]
    /\ UNCHANGED <<wallet, walletVars, statusQuery, derived, signer>>

\* the call when this.provider is a stub that may answer anything
FetchCall(startHeight) == FetchStart("stub", <<>>, startHeight)

\* the transactions the provider's API holds for the address, newest first
HistoryLens == {0, 12, limit, 62}
History(n) == [i \in 1..n |-> [transactionHash |-> <<0, i>>]]

\* the call when this.provider is one of the repository's providers
FetchCallOn(provider, n, startHeight) ==
    FetchStart(provider, History(n), startHeight)

\* const safePage = page ?? []
SafePage(page) == IF page.defined THEN page.entries ELSE <<>>

\* variant: a full page ends the loop as well
IsLastPageOrFull(safePage) == Len(safePage) <= limit

\* if (safePage.length < limit) break
IsLastPage(safePage) == Len(safePage) < limit

\* A page request answers: the page is appended; a short page ends the loop
\* and the function returns, a full page requests the next offset.
FetchPage(page) ==
    /\ fetch.pc = "awaiting"
    /\ LET safePage == SafePage(page)
           transactions == fetch.transactions \o safePage
       IN IF IsLastPage(safePage)
          THEN fetch' = [fetch EXCEPT !.pc = "returned",
                                      !.transactions = transactions,
                                      !.received = Append(@, page)]
          ELSE /\ Len(fetch.requests) < MaxFetchPages
               /\ fetch' = [fetch EXCEPT
                     !.transactions = transactions,
                     !.offset = @ + limit,
                     !.requests = Append(@, PageRequest(fetch.startHeight,
                                                       fetch.offset + limit)),
                     !.received = Append(@, page)]
    /\ UNCHANGED <<wallet, walletVars, statusQuery, derived, signer>>

\* A page request fails: the await throws out of the function.
FetchFail ==
    /\ fetch.pc = "awaiting"
    /\ fetch' = [fetch EXCEPT !.pc = "threw"]
    /\ UNCHANGED <<wallet, walletVars, statusQuery, derived, signer>>

\* ------------------------------------------- provider.getTransactionStatus
Providers == {"Blockstream", "BlockCypher"}
\* what the HTTP API answers: the transaction with its confirmations, not
\* found, or a server error; axios rejects every answer that is not 2xx.
HttpResponses ==
    { [http |-> 200, confirmations |-> 0], [http |-> 200, confirmations |-> 3],
      [http |-> 404, confirmations |-> 0], [http |-> 500, confirmations |-> 0] }

Emits(status) == [kind |-> "next", status |-> status]
Errors == [kind |-> "error", status |-> "none"]

\* BlockstreamBitcoinDataProvider.getTransactionStatus: map only.
BlockstreamStatus(response) ==
    IF response.http = 200
    THEN Emits(IF response.confirmations > 0 THEN "Confirmed" ELSE "Pending")
    ELSE Errors

\* BlockCypherBitcoinDataProvider.getTransactionStatus: map, then
\* catchError turning a 404 into Dropped.
BlockCypherStatus(response) ==
    IF response.http = 200
    THEN Emits(IF response.confirmations > 0 THEN "Confirmed" ELSE "Pending")
    ELSE IF response.http = 404 THEN Emits("Dropped")
    ELSE Errors

GetTransactionStatus(provider, response) ==
    IF provider = "Blockstream" THEN BlockstreamStatus(response)
    ELSE BlockCypherStatus(response)

\* provider.getTransactionStatus(txHash) is subscribed to.
StatusRequest(provider) ==
    /\ statusQuery.pc = "idle"
    /\ statusQuery' = [pc |-> "pending", provider |-> provider]
    /\ UNCHANGED <<wallet, walletVars, fetch, derived, signer>>

\* The HTTP answer arrives and the observable emits or errors.
StatusAnswer(response) ==
    /\ statusQuery.pc = "pending"
    /\ statusQuery' = [pc |-> "answered", provider |-> statusQuery.provider,
                       response |-> response,
                       outcome |-> GetTransactionStatus(statusQuery.provider,
                                                       response)]
    /\ UNCHANGED <<wallet, walletVars, fetch, derived, signer>>

\* BlockstreamBitcoinDataProvider.getTransactions: every transaction of
\* the address, whatever afterBlockHeight and limit are; it has no offset.
BlockstreamTransactions(history, afterBlockHeight, lim) ==
    [defined |-> TRUE, entries |-> history]

\* BlockCypherBitcoinDataProvider.getTransactions: limit and offset go to
\* the API as parameters, which answers with that window of the history.
BlockCypherTransactions(history, afterBlockHeight, lim, offset) ==
    [defined |-> TRUE,
     entries |-> SubSeq(history, offset + 1,
                        IF offset + lim < Len(history) THEN offset + lim
                        ELSE Len(history))]

GetTransactions(provider, history, afterBlockHeight, lim, offset) ==
    IF provider = "Blockstream"
    THEN BlockstreamTransactions(history, afterBlockHeight, lim)
    ELSE BlockCypherTransactions(history, afterBlockHeight, lim, offset)

\* The stub answers the pending page request with a page of n entries.
StubAnswer(n) ==
    /\ fetch.pc = "awaiting"
    /\ fetch.provider = "stub"
    /\ FetchPage(StubPage(Len(fetch.requests), n))

\* The stub's observable completes without a value.
StubAnswerMissing ==
    /\ fetch.pc = "awaiting"
    /\ fetch.provider = "stub"
    /\ FetchPage(Undefined)

\* The provider answers the pending page request.
ProviderAnswer ==
    /\ fetch.pc = "awaiting"
    /\ fetch.provider \in Providers
    /\ FetchPage(GetTransactions(fetch.provider, fetch.history,
                                 fetch.startHeight, limit, fetch.offset))

NextProviders ==
    \/ \E h \in StartHeights : FetchCall(h)
    \/ \E provider \in Providers, n \in HistoryLens, h \in StartHeights :
          FetchCallOn(provider, n, h)
    \/ \E n \in StubPageLens : StubAnswer(n)
    \/ StubAnswerMissing
    \/ ProviderAnswer
    \/ FetchFail
    \/ \E provider \in Providers : StatusRequest(provider)
    \/ \E response \in HttpResponses : StatusAnswer(response)

SpecProviders == Init /\ [][NextProviders]_vars

\* ----------------------------------------- deriveAddressByType on its own
\* One call of deriveAddressByType, recorded with its arguments.
DeriveAddress(publicKey, addressType, network) ==
    /\ Len(derived) < MaxDerivations
    /\ derived' = Append(derived,
          [publicKey |-> publicKey, addressType |-> addressType,
           network |-> network,
           address |-> deriveAddressByType(publicKey, addressType, network)])
    /\ UNCHANGED <<wallet, walletVars, fetch, statusQuery, signer>>

NextKeys ==
    \E publicKey \in PublicKeys, addressType \in AddressTypes,
       network \in Networks : DeriveAddress(publicKey, addressType, network)

SpecKeys == Init /\ [][NextKeys]_vars

\* ---------------------------------------------------------- CustomSigner
\* a key pair whose privateKey is undefined
NoPrivateKey ==
    [part |-> "undefined", seed |-> [pbkdf2 |-> "none", salt |-> "none"],
     path |-> <<>>]
WalletKeyPairs ==
    { deriveKeyPair(seed, "ElectrumNativeSegWit", "external", 0) :
        seed \in Seeds }
SignerKeyPairs ==
    WalletKeyPairs \cup
    { [keyPair EXCEPT !.privateKey = NoPrivateKey] : keyPair \in WalletKeyPairs }

\* the buffers handed to sign: their length and their content
Digests == [length : {0, 31, 32, 33, 64}, bytes : {"x", "y"}]

\* ecc.sign(hash, privateKey): deterministic ECDSA, the signature is
\* determined by the hash and the key.
EccSign(hash, privateKey) == [hash |-> hash, signedWith |-> privateKey]

\* new CustomSigner(keyPair)
NewSigner(keyPair) ==
    /\ signer.pc = "none"
    /\ signer' = IF keyPair.privateKey = NoPrivateKey
                 THEN [pc |-> "threw", keyPair |-> keyPair,
                       publicKey |-> NoPrivateKey, calls |-> <<>>]
                 ELSE [pc |-> "constructed", keyPair |-> keyPair,
                       publicKey |-> keyPair.publicKey, calls |-> <<>>]
    /\ UNCHANGED <<wallet, walletVars, fetch, statusQuery, derived>>

\* variant: longer buffers pass the check
IsDigestAtLeast32(hash) == hash.length >= 32

\* hash.length !== 32 throws
IsDigest(hash) == hash.length = 32

NoSignature == [hash |-> [length |-> 0, bytes |-> "x"],
                signedWith |-> NoPrivateKey]

\* signer.sign(hash)
Sign(hash) ==
    /\ signer.pc = "constructed"
    /\ Len(signer.calls) < MaxSigns
    /\ signer' = [signer EXCEPT !.calls = Append(@,
          IF IsDigest(hash)
          THEN [hash |-> hash, error |-> "none",
                signature |-> EccSign(hash, signer.keyPair.privateKey)]
          ELSE [hash |-> hash, error |-> "Hash must be 32 bytes.",
                signature |-> NoSignature])]
    /\ UNCHANGED <<wallet, walletVars, fetch, statusQuery, derived>>

NextSigner ==
    \/ \E keyPair \in SignerKeyPairs : NewSigner(keyPair)
    \/ \E hash \in Digests : Sign(hash)

SpecSigner == Init /\ [][NextSigner]_vars

TypeOK ==
    /\ pollingAlive \in BOOLEAN
    /\ tipRequest \in {"none", "pending"}
    /\ ticks \in 1..MaxTicks
    /\ dropped \subseteq 1..MaxTicks
    /\ tipFailures \in 0..1
    /\ balance \in Nat
    /\ syncProgress \in {0, 100}
    /\ Len(passes) <= MaxTicks

\* ----------------------------------------------------------- properties
\* Sum of the amounts of a list, from its last element down.
RECURSIVE SumOfAmounts(_)
SumOfAmounts(list) ==
    IF Len(list) = 0 THEN 0
    ELSE SumOfAmounts(SubSeq(list, 1, Len(list) - 1)) + list[Len(list)].amount

Threshold(s) == sends[s].amount + 500
InFlight == {p \in DOMAIN passes : passes[p].pc \in {"history", "utxos"}}
\* send s has run its body (the await after reading utxos$ has resumed)
BodyDone(s) == sends[s].pc # "called"
\* send s called provider.submitTransaction
Submitted(s) == sends[s].tx # NoTx

\* C1: in every reachable state the published balance is exactly the sum of
\* the amounts of the UTXO list in utxos$ (0 for the empty list); the balance
\* being a function of that list, only a replacement of the list changes it.
C1_BalanceIsSumOfUtxos == balance = SumOfAmounts(utxos)

C1_Witness == Len(utxos) = 2 /\ balance = 10400 /\ Len(sends) > 0

\* C2: after a failed tip request the poll is still subscribed to the timer,
\* so that the next tick issues a tip request again.
C2_TipFailureKeepsPolling == tipFailures > 0 => pollingAlive

\* C3: at most one update pass is waiting for a history or UTXO response.
C3_AtMostOnePassInFlight == Cardinality(InFlight) <= 1

\* C4: a pass that publishes a history list or a UTXO list was started no
\* earlier than every pass that has published one before it.
C4_NoEarlierPassPublishesLater ==
    [][\A p \in DOMAIN passes :
          (passes[p].pc # passes'[p].pc /\ passes'[p].pc \in {"utxos", "done"})
          => (p >= historyPass /\ p >= utxosPass)]_vars

\* C5: a delivered tip whose hash equals that of the tip delivered just
\* before it does not invoke updateState, whatever its height.
C5_SameHashStartsNoPass ==
    [][(/\ tipRequest = "pending" /\ tipRequest' = "none"
        /\ lastDelivered # NoBlock /\ lastDelivered' # NoBlock
        /\ lastDelivered'.hash = lastDelivered.hash)
       => passes' = passes]_vars

\* C6: when the list send read totals at least amount + 500, the inputs of
\* the transaction are the shortest prefix of that list, in list order, whose
\* sum reaches amount + 500.
C6_ShortestPrefixSelected ==
    \A s \in DOMAIN sends :
        (/\ BodyDone(s)
         /\ SumOfAmounts(sends[s].utxos) >= Threshold(s)
         /\ IsValidAddress(sends[s].toAddress))
        => /\ Submitted(s)
           /\ \E k \in 1..Len(sends[s].utxos) :
                /\ Len(sends[s].tx.ins) = k
                /\ \A i \in 1..k :
                     /\ sends[s].tx.ins[i].hash = sends[s].utxos[i].txId
                     /\ sends[s].tx.ins[i].index = sends[s].utxos[i].index
                     /\ sends[s].tx.ins[i].value = sends[s].utxos[i].amount
                /\ SumOfAmounts(SubSeq(sends[s].utxos, 1, k)) >= Threshold(s)
                /\ \A j \in 0..(k - 1) :
                     SumOfAmounts(SubSeq(sends[s].utxos, 1, j)) < Threshold(s)

C6_Witness ==
    \E s \in DOMAIN sends :
        /\ Submitted(s)
        /\ Len(sends[s].utxos) = 3
        /\ Len(sends[s].tx.ins) = 2

\* C7: from the list of amounts 10000, 5000, 3000 a send of 8000 takes the
\* first UTXO alone as input (10000 >= 8500 ends the loop) and pays 8000 to
\* the recipient and 1500 back.
IsSpecExample(s) ==
    /\ Len(sends[s].utxos) = 3
    /\ sends[s].utxos[1].amount = 10000
    /\ sends[s].utxos[2].amount = 5000
    /\ sends[s].utxos[3].amount = 3000
    /\ sends[s].amount = 8000
    /\ IsValidAddress(sends[s].toAddress)
    /\ BodyDone(s)

C7_SpecExampleSelection ==
    \A s \in DOMAIN sends :
        IsSpecExample(s)
        => /\ sends[s].tx.ins =
                <<[hash |-> "a", index |-> 0, value |-> 10000]>>
           /\ sends[s].tx.outs =
                <<[address |-> sends[s].toAddress, value |-> 8000],
                  [address |-> WalletAddress, value |-> 1500]>>

C7_Witness ==
    \E s \in DOMAIN sends : IsSpecExample(s) /\ Len(sends[s].tx.outs) = 2

\* C7 as stated: the first two UTXOs are the inputs and the change is 6500.
C7_SpecExampleTwoInputs ==
    \A s \in DOMAIN sends :
        IsSpecExample(s)
        => /\ sends[s].tx.ins =
                <<[hash |-> "a", index |-> 0, value |-> 10000],
                  [hash |-> "b", index |-> 1, value |-> 5000]>>
           /\ sends[s].tx.outs =
                <<[address |-> sends[s].toAddress, value |-> 8000],
                  [address |-> WalletAddress, value |-> 6500]>>

\* C8: submitTransaction is called only for a non-empty list whose total is
\* at least amount + 500; an empty list rejects the send with the no-funds
\* error and a smaller total with the insufficient-funds error, and neither
\* calls submitTransaction.
C8_SubmitOnlyWhenFunded ==
    /\ Len(submitCalls) = Cardinality({s \in DOMAIN sends : Submitted(s)})
    /\ \A s \in DOMAIN sends :
         /\ Submitted(s)
            => /\ Len(sends[s].utxos) > 0
               /\ SumOfAmounts(sends[s].utxos) >= Threshold(s)
         /\ (BodyDone(s) /\ Len(sends[s].utxos) = 0)
            => /\ sends[s].pc = "rejected"
               /\ sends[s].error = "No UTXOs available"
               /\ ~Submitted(s)
         /\ (/\ BodyDone(s) /\ Len(sends[s].utxos) > 0
             /\ SumOfAmounts(sends[s].utxos) < Threshold(s))
            => /\ sends[s].pc = "rejected"
               /\ sends[s].error = "Insufficient funds"
               /\ ~Submitted(s)

C8_Witness ==
    \E s \in DOMAIN sends :
        /\ sends[s].pc = "rejected"
        /\ sends[s].error = "Insufficient funds"
        /\ SumOfAmounts(sends[s].utxos) = 400
        /\ sends[s].amount = 500
        /\ submitCalls = <<>>

\* C9: a built transaction pays exactly amount to the recipient in its first
\* output and has a second output, of inputSum - amount - 500 to the wallet,
\* exactly when that remainder is positive; otherwise it has one output.
RECURSIVE SumOfValues(_)
SumOfValues(ins) ==
    IF Len(ins) = 0 THEN 0
    ELSE SumOfValues(SubSeq(ins, 1, Len(ins) - 1)) + ins[Len(ins)].value

C9_OutputsAndChange ==
    \A s \in DOMAIN sends :
        Submitted(s)
        => LET outs == sends[s].tx.outs
               remainder == SumOfValues(sends[s].tx.ins) - sends[s].amount - 500
           IN /\ outs[1] = [address |-> sends[s].toAddress,
                            value |-> sends[s].amount]
              /\ remainder > 0
                 => outs = <<outs[1], [address |-> WalletAddress,
                                       value |-> remainder]>>
              /\ remainder <= 0 => Len(outs) = 1

C9_Witness ==
    \E s \in DOMAIN sends :
        /\ Submitted(s)
        /\ Len(sends[s].tx.outs) = 2
        /\ sends[s].tx.outs[2].value = 1

\* C10: what a send does is decided by the UTXO list that was current when
\* it was called, and a later replacement of the list leaves the send as it
\* is: its inputs stay and it is not aborted.
C10_SendUsesListAtCall ==
    /\ [](\A s \in DOMAIN sends :
            BodyDone(s)
            => LET r == SendBody(sends[s].utxos, sends[s].toAddress,
                                 sends[s].amount)
               IN /\ sends[s].tx = r.tx
                  /\ r.error # "none" => sends[s].error = r.error
                  /\ (r.error = "none" /\ sends[s].pc = "rejected")
                     => sends[s].error \in ProviderErrors)
    /\ [][(utxos' # utxos \/ utxosPass' # utxosPass) => sends' = sends]_vars

C10_Witness ==
    \E s \in DOMAIN sends :
        /\ sends[s].pc = "submitting"
        /\ sends[s].utxos # utxos
        /\ utxos = <<>>

\* C11: a step of send, successful or not, leaves the UTXO list, the
\* balance, the history, the sync progress and the last-known tip as they
\* are; a step that changes one of them is a step of an update pass.
walletState ==
    <<utxos, balance, transactionHistory, syncProgress, lastKnownBlock>>

C11_SendLeavesWalletState ==
    [][/\ (sends' # sends \/ submitCalls' # submitCalls)
          => walletState' = walletState
       /\ walletState' # walletState
          => (passes' # passes /\ sends' = sends)]_vars

C11_Witness ==
    \E s \in DOMAIN sends :
        /\ sends[s].pc = "resolved"
        /\ utxos = sends[s].utxos
        /\ balance > 0
        /\ syncProgress = 100

\* C12: a rejected send carries the error that was thrown inside it, as it
\* was thrown, and submitTransaction is called at most once per send call.
C12_RejectsUnmodifiedNoRetry ==
    /\ Len(submitCalls) <= Len(sends)
    /\ Len(submitCalls) = Cardinality({s \in DOMAIN sends : Submitted(s)})
    /\ \A s \in DOMAIN sends :
         sends[s].pc = "rejected"
         => LET r == SendBody(sends[s].utxos, sends[s].toAddress,
                              sends[s].amount)
            IN IF r.error # "none"
               THEN sends[s].error = r.error /\ ~Submitted(s)
               ELSE sends[s].error \in ProviderErrors /\ Submitted(s)

C12_Witness ==
    \E s \in DOMAIN sends :
        /\ sends[s].pc = "rejected"
        /\ sends[s].error = "Request failed with status code 400"
        /\ Len(submitCalls) = 1

\* C13: when the list in utxos$ was published by the error handler of
\* getUTxOs it is the empty list and the balance is 0, and the pass it
\* belongs to ran to its end: progress 100 is reported, the pass is done.
C13_UtxoFailureClearsList ==
    utxosFailed
    => /\ utxos = <<>>
       /\ balance = 0
       /\ syncProgress = 100
       /\ passes[utxosPass].pc = "done"

C13_Witness ==
    /\ utxosFailed
    /\ utxosPass = 2
    /\ passes[1].pc = "done"

\* C14: a pass abandoned on a failed history page has published nothing: the
\* step of the failure leaves history, UTXO list, balance and progress as
\* they were, and the pass does nothing afterwards.
C14_HistoryFailurePublishesNothing ==
    /\ [](\A p \in DOMAIN passes :
            passes[p].pc = "abandoned" => (historyPass # p /\ utxosPass # p))
    /\ [][\A p \in DOMAIN passes :
            /\ (passes[p].pc = "history" /\ passes'[p].pc = "abandoned")
               => UNCHANGED <<transactionHistory, utxos, balance,
                              syncProgress>>
            /\ passes[p].pc = "abandoned" => passes'[p] = passes[p]]_vars

C14_Witness ==
    \E p \in DOMAIN passes :
        /\ passes[p].pc = "abandoned"
        /\ historyPass \notin {0, p}
        /\ Len(transactionHistory) > 0

\* C15: while a pass waits for history, and after it was abandoned, the
\* last-known tip is not yet the tip of that pass.
C15_TipRecordedOnCompletion ==
    \A p \in DOMAIN passes :
        passes[p].pc \in {"history", "abandoned"}
        => lastKnownBlock # passes[p].tip

\* C16: a UTXO answer that is published belongs to a getUTxOs call made
\* after the call whose answer is in utxos$ at that moment.
C16_NoStaleUtxoPublication ==
    [][\A p \in DOMAIN passes :
          (passes[p].pc = "utxos" /\ passes'[p].pc = "done" /\ utxosPass # 0)
          => passes[utxosPass].utxoSeq < passes[p].utxoSeq]_vars

\* C17: a run of fetchRecentTransactions asks for pages of 50 at offsets
\* 0, 50, 100, ... with one start height, goes on exactly while the pages
\* are full, and returns the received pages in request order (a missing page
\* counts as empty); pages of 50, 50 and 12 make 3 requests and 112 entries.
PageLen(page) == IF page.defined THEN Len(page.entries) ELSE 0

RECURSIVE Flatten(_)
Flatten(pages) ==
    IF Len(pages) = 0 THEN <<>>
    ELSE (IF Head(pages).defined THEN Head(pages).entries ELSE <<>>)
         \o Flatten(Tail(pages))

C17_Pagination ==
    fetch.pc # "idle"
    => /\ \A k \in DOMAIN fetch.requests :
            fetch.requests[k] = [address |-> WalletAddress,
                                 startHeight |-> fetch.startHeight,
                                 limit |-> 50, offset |-> 50 * (k - 1)]
       /\ fetch.pc = "returned"
          => /\ Len(fetch.requests) = Len(fetch.received)
             /\ \A k \in DOMAIN fetch.received :
                  (PageLen(fetch.received[k]) < 50) <=> (k = Len(fetch.received))
             /\ fetch.transactions = Flatten(fetch.received)
       /\ fetch.pc \in {"awaiting", "threw"}
          => /\ Len(fetch.requests) = Len(fetch.received) + 1
             /\ \A k \in DOMAIN fetch.received :
                  PageLen(fetch.received[k]) >= 50
       /\ (/\ Len(fetch.received) = 3
           /\ PageLen(fetch.received[1]) = 50
           /\ PageLen(fetch.received[2]) = 50
           /\ PageLen(fetch.received[3]) = 12)
          => /\ fetch.pc = "returned"
             /\ Len(fetch.requests) = 3
             /\ Len(fetch.transactions) = 112

C17_Witness ==
    /\ fetch.pc = "returned"
    /\ Len(fetch.requests) = 3
    /\ Len(fetch.transactions) = 112
    /\ fetch.transactions[51].transactionHash = <<2, 1>>

\* C18: whichever provider is asked, a not-found answer makes the status
\* observable emit Dropped, not fail, and a found transaction makes it emit
\* Pending or Confirmed.
C18_NotFoundIsDropped ==
    statusQuery.pc = "answered"
    => /\ statusQuery.response.http = 404
          => statusQuery.outcome = [kind |-> "next", status |-> "Dropped"]
       /\ statusQuery.response.http = 200
          => /\ statusQuery.outcome.kind = "next"
             /\ statusQuery.outcome.status \in {"Pending", "Confirmed"}

\* C20: for one public key and one network, two address types give the
\* same address exactly when they are the same type or are NativeSegWit and
\* ElectrumNativeSegWit, which both select P2WPKH; every other pair of
\* distinct types gives distinct addresses.
SameKeyAndNetwork(i, j) ==
    /\ derived[i].publicKey = derived[j].publicKey
    /\ derived[i].network = derived[j].network

C20_DistinctUnlessBothP2WPKH ==
    \A i, j \in DOMAIN derived :
        SameKeyAndNetwork(i, j)
        => ((derived[i].address = derived[j].address)
            <=> \/ derived[i].addressType = derived[j].addressType
                \/ {derived[i].addressType, derived[j].addressType}
                     = {"NativeSegWit", "ElectrumNativeSegWit"})

C20_Witness ==
    /\ Len(derived) = 2
    /\ SameKeyAndNetwork(1, 2)
    /\ derived[1].addressType = "NativeSegWit"
    /\ derived[2].addressType = "ElectrumNativeSegWit"
    /\ derived[1].address = derived[2].address

\* C20 as stated: for one public key and one network, any two distinct
\* address types give distinct addresses.
C20_DistinctTypesDistinctAddresses ==
    \A i, j \in DOMAIN derived :
        (SameKeyAndNetwork(i, j)
         /\ derived[i].addressType # derived[j].addressType)
        => derived[i].address # derived[j].address

\* C21: a signer is constructed only from a key pair with a private key;
\* sign throws for every buffer whose length is not 32 and returns a
\* signature made with the signer's private key for every buffer of length
\* 32; two calls with the same buffer return the same signature.
C21_SignerRejectsBadInput ==
    /\ signer.pc = "threw" <=> (signer.pc # "none"
                               /\ signer.keyPair.privateKey = NoPrivateKey)
    /\ signer.pc = "constructed"
       => /\ signer.publicKey = signer.keyPair.publicKey
          /\ \A i \in DOMAIN signer.calls :
               LET call == signer.calls[i] IN
               /\ call.hash.length # 32
                  => call.error # "none" /\ call.signature = NoSignature
               /\ call.hash.length = 32
                  => /\ call.error = "none"
                     /\ call.signature.hash = call.hash
                     /\ call.signature.signedWith = signer.keyPair.privateKey
                     /\ \A j \in DOMAIN signer.calls :
                          signer.calls[j].hash = call.hash
                          => signer.calls[j].signature = call.signature

C21_Witness ==
    /\ signer.pc = "constructed"
    /\ Len(signer.calls) = 2
    /\ signer.calls[1].hash.length = 33
    /\ signer.calls[1].error = "Hash must be 32 bytes."
    /\ signer.calls[2].hash.length = 32
    /\ signer.calls[2].error = "none"

\* C22: the step in which a pass reports progress 100 (its updateState runs
\* to the end) leaves the pass with its UTXO fetch completed: the list in
\* utxos$ is the one of that pass and the balance is its sum.
C22_ProgressAfterUtxoFetch ==
    [][\A p \in DOMAIN passes :
          (passes[p].pc = "history" /\ passes'[p].pc \notin {"history", "abandoned"})
          => /\ syncProgress' = 100
             /\ passes'[p].pc = "done"
             /\ utxosPass' = p
             /\ balance' = SumOfAmounts(utxos')]_vars

\* C23: a step that delivers a tip while nothing is last-known, or a tip
\* whose hash differs from the last-known hash, starts an update pass for
\* that tip, whatever the heights are.
TipDelivered ==
    tipRequest = "pending" /\ tipRequest' = "none" /\ tipFailures' = tipFailures

C23_NewHashStartsPass ==
    [][(/\ TipDelivered
        /\ \/ lastKnownBlock = NoBlock
           \/ lastKnownBlock.hash # lastDelivered'.hash)
       => /\ Len(passes') = Len(passes) + 1
          /\ passes'[Len(passes')].tip = lastDelivered'
          /\ passes'[Len(passes')].pc = "history"
          /\ \A p \in DOMAIN passes : passes'[p] = passes[p]]_vars

C23_Witness ==
    /\ Len(passes) = 2
    /\ passes[1].tip = [height |-> 30, hash |-> "h1"]
    /\ passes[1].pc = "done"
    /\ passes[2].tip = [height |-> 7, hash |-> "h2"]
    /\ passes[2].pc = "history"

\* C24: every pass that is started comes, unless one of its provider calls
\* fails, to a state in which history, UTXO list, balance and progress are
\* the ones of that pass: the history it fetched, the list getUTxOs answered
\* with, the sum of that list, and 100.
PassFailed(p) ==
    \/ passes[p].pc = "abandoned"
    \/ passes[p].pc = "done" /\ utxosPass = p /\ utxosFailed

PassPublished(p) ==
    /\ passes[p].pc = "done"
    /\ historyPass = p
    /\ utxosPass = p /\ ~utxosFailed
    /\ balance = SumOfAmounts(utxos)
    /\ syncProgress = 100

C24_SuccessfulPassPublishes ==
    \A p \in 1..MaxTicks :
        (p \in DOMAIN passes)
        ~> (p \in DOMAIN passes /\ (PassFailed(p) \/ PassPublished(p)))

\* C25: a run of fetchRecentTransactions against a provider of the
\* repository, for an address with n transactions, has received its short
\* page, and so ended, with request n \div 50 + 1 at the latest: it never
\* makes a further request.
C25_FetchTerminates ==
    (fetch.pc # "idle" /\ fetch.provider \in Providers)
    => Len(fetch.requests) <= Len(fetch.history) \div 50 + 1

\* C26: the pipeline listens to one tip request at most, that of the most
\* recent tick: a tick that finds the request unanswered drops it and makes
\* a new one, and the answer to a dropped request delivers nothing and
\* starts no pass.
C26_OnlyLatestTipRequestDelivers ==
    /\ [](\A t \in dropped : t < ticks)
    /\ [][/\ (ticks' # ticks /\ tipRequest = "pending")
             => (tipRequest' = "pending" /\ dropped' = dropped \cup {ticks})
          /\ (lastDelivered' # lastDelivered \/ passes' # passes
                \/ lastKnownBlock' # lastKnownBlock)
             => dropped' = dropped
          /\ Len(passes') > Len(passes)
             => (tipRequest = "pending" /\ tipRequest' = "none")]_vars

C26_Witness ==
    /\ ticks = 3
    /\ dropped = {1}
    /\ Len(passes) = 2

\* C27: the step in which a pass ends its history fetch changes the
\* last-known tip only when no pass was started after it.
C27_LastKnownNeverRegresses ==
    [][\A p \in DOMAIN passes :
          (passes[p].pc = "history" /\ passes'[p].pc = "utxos"
             /\ lastKnownBlock' # lastKnownBlock)
          => p = Len(passes)]_vars

\* C30: sync progress is 0 or 100; it is 100 exactly when some pass has
\* run updateState to its end, and no step lowers it, whatever later passes
\* do.
C30_ProgressZeroThenHundred ==
    /\ [](/\ syncProgress \in {0, 100}
          /\ syncProgress = 100
             <=> \E p \in DOMAIN passes : passes[p].pc \in {"utxos", "done"})
    /\ [][syncProgress' >= syncProgress]_vars

C30_Witness ==
    /\ syncProgress = 100
    /\ Len(passes) = 3
    /\ passes[1].pc = "done"
    /\ passes[2].pc = "abandoned"
    /\ passes[3].pc = "history"

\* C28: with no publication of the UTXO list in between, two sends with
\* the same recipient and amount end their body alike, with the same inputs
\* in the same order and the same outputs, or the same refusal; and the
\* inputs of a send that was submitted successfully are still in the list.
C28_RepeatedSendSelectsSameInputs ==
    /\ \A s, t \in DOMAIN sends :
         (/\ sends[s].toAddress = sends[t].toAddress
          /\ sends[s].amount = sends[t].amount
          /\ BodyDone(s) /\ BodyDone(t))
         => /\ sends[s].tx.ins = sends[t].tx.ins
            /\ sends[s].tx.outs = sends[t].tx.outs
            /\ Submitted(s) <=> Submitted(t)
    /\ \A s \in DOMAIN sends :
         sends[s].pc = "resolved"
         => \A i \in DOMAIN sends[s].tx.ins :
               \E k \in DOMAIN utxos :
                  /\ utxos[k].txId = sends[s].tx.ins[i].hash
                  /\ utxos[k].index = sends[s].tx.ins[i].index

C28_Witness ==
    /\ Len(sends) = 2
    /\ sends[1].pc = "resolved"
    /\ sends[2].pc = "resolved"
    /\ sends[1].amount = 8000 /\ sends[2].amount = 8000
    /\ sends[1].toAddress = sends[2].toAddress
    /\ Len(sends[1].tx.ins) = 2
    /\ sends[2].tx = sends[1].tx
    /\ Len(submitCalls) = 2

\* C29: the key pair send derives is the one whose public key the tracked
\* address encodes, and the change output of every transaction handed to
\* the provider pays the tracked address.
C29_ChangePaysTrackedAddress ==
    /\ SendKeyPair.publicKey = wallet.address.key
    /\ SendKeyPair.privateKey.seed = deriveElectrumSeed(wallet.mnemonics)
    /\ \A s \in DOMAIN sends :
         (Submitted(s) /\ Len(sends[s].tx.outs) = 2)
         => sends[s].tx.outs[2].address = wallet.address
    /\ \A u \in 1..Len(utxos) : utxos[u].address = wallet.address

C29_Witness ==
    /\ wallet.mnemonics = "mnemonicB"
    /\ wallet.network = "mainnet"
    /\ \E s \in DOMAIN sends :
         /\ sends[s].pc = "resolved"
         /\ Len(sends[s].tx.outs) = 2
         /\ sends[s].tx.outs[2].address = wallet.address
         /\ sends[s].tx.outs[2].address.key.path = <<"m/0'", 0, 0>>

====
